---- MODULE Spec2Model ----
(***************************************************************************)
(* Kronos forecasting dashboard: the cycle orchestrator                    *)
(* (KronosForecastingApp in main.py), the per-instrument engine            *)
(* (ForecastingEngine.run_for_symbol, core/pipeline.py), the publisher     *)
(* (WebGenerator.update) and the scheduler loop, as one state machine.     *)
(* One action per blocking call of a cycle; the outcome of every external  *)
(* call (provider, oracle, renderer, file system) is a nondeterministic    *)
(* choice.                                                                 *)
(***************************************************************************)
EXTENDS Integers, Sequences, FiniteSets, TLC

\* ---------------------------------------------------------------- bounds
MaxPairs == 3         \* most (provider, symbol) pairs config.ini lists
MaxCycles == 2        \* cycles started in one process
MaxBars == 2          \* most bars a provider returns
n_predictions == 1    \* sample count of an ensemble (common.n_predictions)
MaxHist == 4          \* most bars of a history handed to the engine
MaxWindow == 3        \* largest common.vol_window
MaxCells == 4         \* most values of an oracle ensemble: horizon times paths
MaxLogPrice == 1      \* closes range over 2^0 .. 2^MaxLogPrice

\* ------------------------------------------------------------- constants
SymbolSeq == <<"BTCUSDT", "600519">>

Symbols == {SymbolSeq[k] : k \in 1..Len(SymbolSeq)}

\* DataSourceManager.available(): the keys of self.sources, insertion order
available == <<"binance", "akshare">>

NoSection == <<>>

\* the symbols of a provider section with n entries: the k-th provider lists
\* the symbols in rotation starting at the k-th, so that a symbol is listed
\* under both providers and, from the third entry on, twice in one list
SymbolList(k, n) == [j \in 1..n |-> SymbolSeq[((j + k - 2) % Len(SymbolSeq)) + 1]]

\* config.ini: each provider section is absent or lists some symbols, at
\* most MaxPairs in all
Configs ==
    {[name \in {available[k] : k \in 1..Len(available)} |->
        LET k == CHOOSE x \in 1..Len(available) : available[x] = name
        IN  IF len[k] = 0 THEN NoSection ELSE SymbolList(k, len[k])] :
     len \in {l \in [1..Len(available) -> 0..MaxPairs] : l[1] + l[2] <= MaxPairs}}

\* Optional[pd.DataFrame]: None, or a frame of `rows` bars
NoneDf == [isNone |-> TRUE, rows |-> 0]

DataFrame(n) == [isNone |-> FALSE, rows |-> n]

\* df.iloc[:-1]
DropLast(df) == [df EXCEPT !.rows = IF df.rows > 0 THEN df.rows - 1 ELSE 0]

FetchResults == {NoneDf} \cup {DataFrame(n) : n \in 0..MaxBars}

\* Optional[Path] of a chart: None, or docs/static/chart/<symbol>.png
NonePath == [isNone |-> TRUE, parts |-> <<>>]

ChartFile(symbol) == [isNone |-> FALSE, parts |-> <<"docs", "static", "chart", symbol>>]

\* Path.relative_to(repo_path / 'docs')
RelativeToDocs(path) == [isNone |-> FALSE, parts |-> SubSeq(path.parts, 2, Len(path.parts))]

\* str(Path('static/chart/<symbol>.png')) as built by the mock enumeration
MockChartPath_docs(symbol) == ChartFile(symbol)

MockChartPath(symbol) == [isNone |-> FALSE, parts |-> <<"static", "chart", symbol>>]

\* a probability k/n, kept exact
Prob(k, n) == <<k, n>>

\* values calculate_metrics can return: a count of paths over the path count
ProbRange == {Prob(k, n_predictions) : k \in 0..n_predictions}

NoResult == [isNone |-> TRUE, upside_prob |-> Prob(0, 1), vol_amp_prob |-> Prob(0, 1), chart_path |-> NonePath]

ForecastResult(up, va, path) == [isNone |-> FALSE, upside_prob |-> up, vol_amp_prob |-> va, chart_path |-> path]

VARIABLES
    args_mock,      \* --mock
    args_schedule,  \* --schedule
    config,         \* config.ini: provider section -> symbol list
    pairs,          \* the (provider, symbol) pairs of config, in loop order
    charts_dir,     \* docs/static/chart: <<>> when missing, else <<the PNG stems>>
    page,           \* docs/index.html: "absent", "truncated", "written"
    mock,           \* self.mock
    model_loaded,   \* self.model_loaded
    artifacts,      \* self.model_manager.artifacts is set
    pc,             \* position of the main thread
    i,              \* index of the (provider, symbol) pair being processed
    df_full,        \* the fetched frame
    result,         \* the ForecastResult under construction
    metrics,        \* the report of the running cycle
    lastResult,     \* what run_forecast returned: "none", "True", "False"
    exitCode,       \* "none" while running, else "0" or "1"
    due,            \* the scheduled job is due
    overran,        \* the job that has just returned ran longer than the period
    cycles,         \* cycles started so far
    loadCalls,      \* calls of ModelManager.load so far
    loadFailed,     \* a call of ModelManager.load has raised
    fetched,        \* pairs fetched in this cycle
    noData,         \* pairs whose fetch gave None or an empty frame
    predictCalls,   \* predictor.predict calls of this cycle: <<pair, T>>
    oracleFailed,   \* pairs for which predictor.predict raised
    renderFailed,   \* pairs for which create_plot returned None
    succeeded,      \* pairs inserted into the report in this cycle
    raised,         \* stage that raised in this cycle, "none" when none
    updateArgs,     \* reports handed to WebGenerator.update in this cycle
    interruptedAt   \* pc at which KeyboardInterrupt was raised, "none"

\* ForecastingEngine.run_for_symbol and core/pipeline.py on one history
VARIABLES
    engine_pc,            \* position inside run_for_symbol, "idle" outside it
    call,                 \* interval, pred_horizon, n_predictions, hist_points, vol_window
    bars,                 \* the df_full argument with its columns
    df_for_model,         \* df_full.iloc[:-1]
    y_timestamp,          \* the future timestamp axis
    oracle_calls,         \* the predictor.predict calls of make_prediction, in order
    hist_df_for_plot,     \* df_for_model.tail(hist_points)
    hist_df_for_metrics,  \* df_for_model.tail(vol_window)
    last_close,           \* hist_df['close'].iloc[-1]
    close_preds,          \* the T=0.6 ensemble: rows are horizon steps, columns paths
    upside_prob,          \* the first result of calculate_metrics
    historical_vol,       \* std of the trailing log returns
    v_close_preds,        \* the T=0.9 ensemble
    vol_amp_prob          \* the second result of calculate_metrics

engineVars == <<engine_pc, call, bars, df_for_model, y_timestamp, oracle_calls, hist_df_for_plot, hist_df_for_metrics, last_close, close_preds, upside_prob, historical_vol, v_close_preds, vol_amp_prob>>

appVars == <<args_mock, args_schedule, config, pairs, mock>>

modelVars == <<model_loaded, artifacts, loadCalls, loadFailed>>

localVars == <<i, df_full, result, metrics>>

ghostVars == <<fetched, noData, predictCalls, oracleFailed, renderFailed, succeeded, updateArgs>>

endVars == <<pc, lastResult, exitCode, raised>>

orchestratorVars == <<appVars, modelVars, localVars, ghostVars, endVars, charts_dir, page, due, overran, cycles, interruptedAt>>

vars == <<orchestratorVars, engineVars>>

\* metrics = {}
EmptyMetrics_stale ==
    IF ~args_mock /\ charts_dir # <<>> THEN [s \in charts_dir[1] |-> NoResult] ELSE [s \in {} |-> NoResult]

EmptyMetrics == [s \in {} |-> NoResult]

\* the (provider, symbol) pairs in the order _run_inference_mode visits them
RECURSIVE PairsFrom(_, _)
PairsFrom(cfg, k) ==
    IF k > Len(available) THEN <<>>
    ELSE LET name == available[k]
             here == IF cfg[name] = NoSection THEN <<>>
                     ELSE [j \in 1..Len(cfg[name]) |-> [source |-> name, symbol |-> cfg[name][j]]]
         IN  here \o PairsFrom(cfg, k + 1)

Pairs == pairs

AllPairs == 1..Len(Pairs)

SymbolOf(j) == Pairs[j].symbol

\* ------------------------------------------------ values of the engine
\* A close of 2^e is kept as its exponent e: the ratio of two closes is the
\* difference of the exponents, np.log of it is that difference times ln 2,
\* and a standard deviation scales by ln 2, which no comparison sees.
\* Timestamps are counted in minutes.

\* pd.Timedelta(minutes=1), the step of freq 'min'
Minute == 1

\* pd.Timedelta(hours=1), the step of freq 'h'
Hour == 60

\* pd.Timedelta(days=1), the step of freq 'D'
Day == 1440

\* Optional[pd.DataFrame] with its 'timestamps' and 'close' columns
NoBars == [isNone |-> TRUE, timestamps |-> <<>>, close |-> <<>>]

Bars(ts, cl) == [isNone |-> FALSE, timestamps |-> ts, close |-> cl]

\* float('nan')
NaN == <<>>

\* a float that is not NaN
Float(x) == <<x>>

\* the result of Series.std(): NaN, or the root of num / den
NaNVol == [nan |-> TRUE, num |-> 0, den |-> 1]

Vol(num, den) == [nan |-> FALSE, num |-> num, den |-> den]

\* nothing of run_for_symbol is live
EngineIdle ==
    /\ engine_pc = "idle"
    /\ call = <<>>
    /\ bars = NoBars
    /\ df_for_model = NoBars
    /\ y_timestamp = <<>>
    /\ oracle_calls = <<>>
    /\ hist_df_for_plot = NoBars
    /\ hist_df_for_metrics = NoBars
    /\ last_close = 0
    /\ close_preds = <<>>
    /\ upside_prob = NaN
    /\ historical_vol = NaNVol
    /\ v_close_preds = <<>>
    /\ vol_amp_prob = NaN

\* self.mock = mock, from KronosForecastingApp(repo_path, mock=args.mock)
InitMock_dropped(flag) == FALSE

InitMock(flag) == flag

\* a fresh checkout: no page yet, and no chart directory unless the mock path
\* is to read it (the inference path only ever writes to it)
Init ==
    /\ args_mock \in BOOLEAN
    /\ args_schedule \in BOOLEAN
    /\ config \in Configs
    /\ pairs = PairsFrom(config, 1)
    /\ charts_dir \in (IF args_mock THEN {<<>>} \cup {<<S>> : S \in SUBSET Symbols} ELSE {<<>>})
    /\ page = "absent"
    /\ mock = InitMock(args_mock)
    /\ model_loaded = FALSE
    /\ artifacts = FALSE
    /\ pc = "main"
    /\ i = 0
    /\ df_full = NoneDf
    /\ result = NoResult
    /\ metrics = EmptyMetrics
    /\ lastResult = "none"
    /\ exitCode = "none"
    /\ due = FALSE
    /\ overran = FALSE
    /\ cycles = 0
    /\ loadCalls = 0
    /\ loadFailed = FALSE
    /\ fetched = {}
    /\ noData = {}
    /\ predictCalls = {}
    /\ oracleFailed = {}
    /\ renderFailed = {}
    /\ succeeded = {}
    /\ raised = "none"
    /\ updateArgs = <<>>
    /\ interruptedAt = "none"
    /\ EngineIdle


\* ------------------------------------------------------- helper predicates

\* main.py:133 / engine.py:31: df_full is None or df_full.empty
NoData(df) == df.isNone \/ df.rows = 0

\* `if result:` -- a ForecastResult is a plain dataclass instance, always true
Truthy(r) == ~r.isNone

\* `if not metrics:` of run_forecast
IsEmpty_never(m) == FALSE

IsEmpty(m) == DOMAIN m = {}

\* `except Exception` of run_forecast: every Exception subclass, but not
\* KeyboardInterrupt or SystemExit (BaseException)
Catches_nothing(kind) == FALSE

Catches(kind) == kind = "Exception"

\* loop head of `for symbol in symbols` over all configured sources
LoopPc(j) == IF j <= Len(Pairs) THEN "fetch" ELSE "check_empty"

\* run_forecast returns v
Return(v) ==
    /\ pc' = "cycle_done"
    /\ lastResult' = v
    /\ UNCHANGED <<exitCode, raised>>

\* an Exception raised at `stage` inside run_forecast's try block: caught at
\* main.py:189 and turned into False, else it reaches main()'s
\* `except Exception` and the process exits with code 1
Raise(stage) ==
    /\ raised' = stage
    /\ IF Catches("Exception")
       THEN /\ pc' = "cycle_done"
            /\ lastResult' = "False"
            /\ UNCHANGED exitCode
       ELSE /\ pc' = "exited"
            /\ exitCode' = "1"
            /\ UNCHANGED lastResult

Goto(label) ==
    /\ pc' = label
    /\ UNCHANGED <<lastResult, exitCode, raised>>

\* the loop moves on to the next pair; df_full and result of the pair just
\* left are dead (each is assigned before it is read again)
Continue ==
    /\ i' = i + 1
    /\ df_full' = NoneDf
    /\ result' = NoResult
    /\ Goto(LoopPc(i + 1))

\* the frame of run_forecast is gone: its locals and what was recorded of
\* the cycle
CycleForgotten ==
    /\ i' = 0
    /\ df_full' = NoneDf
    /\ result' = NoResult
    /\ metrics' = EmptyMetrics
    /\ fetched' = {}
    /\ noData' = {}
    /\ predictCalls' = {}
    /\ oracleFailed' = {}
    /\ renderFailed' = {}
    /\ succeeded' = {}
    /\ updateArgs' = <<>>
    /\ lastResult' = "none"
    /\ raised' = "none"

\* ------------------------------------------------------------ main()

\* main.py:237-240: run the scheduler or one cycle
MainDispatch ==
    /\ pc = "main"
    /\ Goto(IF args_schedule THEN "run_pending" ELSE "run_forecast")
    /\ UNCHANGED <<appVars, modelVars, localVars, ghostVars, charts_dir, page, due, overran, cycles, interruptedAt, engineVars>>

\* main.py:202 time.sleep(1): time passes and the job may become due; the
\* return of the job is no longer the latest event
Sleep ==
    /\ pc = "sleep"
    /\ \E d \in {due} \cup (IF cycles < MaxCycles THEN {TRUE} ELSE {}) : due' = d
    /\ overran' = FALSE
    /\ Goto("run_pending")
    /\ UNCHANGED <<appVars, modelVars, localVars, ghostVars, charts_dir, page, cycles, interruptedAt, engineVars>>

\* main.py:201 schedule.run_pending(): runs the job when it is due
RunPending ==
    /\ pc = "run_pending"
    /\ Goto(IF due THEN "run_forecast" ELSE "sleep")
    /\ due' = FALSE
    /\ UNCHANGED <<appVars, modelVars, localVars, ghostVars, charts_dir, page, overran, cycles, interruptedAt, engineVars>>

\* main.py:161-172: a cycle starts and picks the mock or the inference path
RunForecast ==
    /\ pc = "run_forecast"
    /\ cycles < MaxCycles
    /\ cycles' = cycles + 1
    /\ Goto(IF mock THEN "mock" ELSE "ensure_model_loaded")
    /\ UNCHANGED <<appVars, modelVars, localVars, ghostVars, charts_dir, page, due, overran, interruptedAt, engineVars>>

\* main.py:82-107 _run_mock_mode: one entry per PNG of the chart directory
RunMockMode ==
    /\ pc = "mock"
    /\ metrics' = IF charts_dir = <<>> THEN EmptyMetrics
                  ELSE [s \in charts_dir[1] |-> ForecastResult(Prob(1, 2), Prob(1, 2), MockChartPath(s))]
    /\ Goto("check_empty")
    /\ UNCHANGED <<appVars, modelVars, i, df_full, result, ghostVars, charts_dir, page, due, overran, cycles, interruptedAt, engineVars>>

\* main.py:74-80 _ensure_model_loaded, model_manager.py:37-55 load
EnsureModelLoaded ==
    /\ pc = "ensure_model_loaded"
    /\ IF ~model_loaded /\ ~mock
       THEN /\ loadCalls' = loadCalls + 1
            /\ \E ok \in BOOLEAN :
                 IF ok
                 THEN /\ artifacts' = TRUE
                      /\ model_loaded' = TRUE
                      /\ Goto("predictor")
                      /\ UNCHANGED loadFailed
                 ELSE /\ loadFailed' = TRUE
                      /\ Raise("load")
                      /\ UNCHANGED <<artifacts, model_loaded>>
       ELSE /\ Goto("predictor")
            /\ UNCHANGED modelVars
    /\ UNCHANGED <<appVars, localVars, ghostVars, charts_dir, page, due, overran, cycles, interruptedAt, engineVars>>

\* main.py:112-113, model_manager.py:57-60: predictor() and metrics = {}
Predictor ==
    /\ pc = "predictor"
    /\ IF ~artifacts
       THEN /\ Raise("predictor")
            /\ UNCHANGED localVars
       ELSE /\ metrics' = EmptyMetrics
            /\ i' = 1
            /\ Goto(LoopPc(1))
            /\ UNCHANGED <<df_full, result>>
    /\ UNCHANGED <<appVars, modelVars, ghostVars, charts_dir, page, due, overran, cycles, interruptedAt, engineVars>>


\* ------------------------------------------------ per-instrument pipeline

\* main.py:133-135: `continue` -- log and go on with the next symbol
SkipPair_break ==
    /\ Goto("check_empty")
    /\ UNCHANGED <<i, df_full, result>>

SkipPair == Continue

\* main.py:126-135 with data_source.py:30-33: fetch, skip the pair on no data
FetchData ==
    /\ pc = "fetch"
    /\ fetched' = fetched \cup {i}
    /\ \E df \in FetchResults :
         /\ noData' = IF df.isNone \/ df.rows = 0 THEN noData \cup {i} ELSE noData
         /\ IF NoData(df)
            THEN SkipPair
            ELSE /\ df_full' = df
                 /\ Goto("run_for_symbol")
                 /\ UNCHANGED <<i, result>>
    /\ UNCHANGED <<appVars, modelVars, metrics, predictCalls, oracleFailed, renderFailed, succeeded, updateArgs, charts_dir, page, due, overran, cycles, interruptedAt, engineVars>>

\* engine.py:31-38 and pipeline.py:9-29: the guard of run_for_symbol, the drop
\* of the last bar and the future axis; pd.date_range raises on the NaT that
\* max() of an empty timestamp column gives
RunForSymbol ==
    /\ pc = "run_for_symbol"
    /\ IF NoData(df_full)
       THEN Continue
       ELSE /\ UNCHANGED <<i, df_full, result>>
            /\ IF DropLast(df_full).rows = 0
               THEN Raise("future_axis")
               ELSE Goto("predict_main")
    /\ UNCHANGED <<appVars, modelVars, metrics, ghostVars, charts_dir, page, due, overran, cycles, interruptedAt, engineVars>>

\* pipeline.py:31-38: predictor.predict with T=0.6
PredictMain ==
    /\ pc = "predict_main"
    /\ predictCalls' = predictCalls \cup {<<i, "0.6">>}
    /\ \E ok \in BOOLEAN :
         IF ok
         THEN /\ Goto("predict_volatility")
              /\ UNCHANGED oracleFailed
         ELSE /\ oracleFailed' = oracleFailed \cup {i}
              /\ Raise("predict_main")
    /\ UNCHANGED <<appVars, modelVars, localVars, fetched, noData, renderFailed, succeeded, updateArgs, charts_dir, page, due, overran, cycles, interruptedAt, engineVars>>

\* pipeline.py:40-49: predictor.predict with T=0.9
PredictVolatility ==
    /\ pc = "predict_volatility"
    /\ predictCalls' = predictCalls \cup {<<i, "0.9">>}
    /\ \E ok \in BOOLEAN :
         IF ok
         THEN /\ Goto("calculate_metrics")
              /\ UNCHANGED oracleFailed
         ELSE /\ oracleFailed' = oracleFailed \cup {i}
              /\ Raise("predict_volatility")
    /\ UNCHANGED <<appVars, modelVars, localVars, fetched, noData, renderFailed, succeeded, updateArgs, charts_dir, page, due, overran, cycles, interruptedAt, engineVars>>

\* engine.py:39-44 and pipeline.py:52-78: both probabilities are a count of
\* paths over the number of paths; an ensemble without rows or columns makes
\* iloc[-1] or the division raise
CalculateMetrics ==
    /\ pc = "calculate_metrics"
    /\ \E wellFormed \in BOOLEAN :
         IF wellFormed
         THEN /\ \E up \in ProbRange, va \in ProbRange :
                   result' = ForecastResult(up, va, NonePath)
              /\ Goto("create_plot")
         ELSE /\ Raise("calculate_metrics")
              /\ UNCHANGED result
    /\ UNCHANGED <<appVars, modelVars, i, df_full, metrics, ghostVars, charts_dir, page, due, overran, cycles, interruptedAt, engineVars>>

\* engine.py:47-56 and pipeline.py:104-158: create_plot saves the PNG and
\* returns its path, or catches its own failure and returns None
CreatePlot ==
    /\ pc = "create_plot"
    /\ \E ok \in BOOLEAN :
         IF ok
         THEN /\ result' = [result EXCEPT !.chart_path = ChartFile(SymbolOf(i))]
              /\ charts_dir' = <<(IF charts_dir = <<>> THEN {} ELSE charts_dir[1]) \cup {SymbolOf(i)}>>
              /\ UNCHANGED renderFailed
         ELSE /\ result' = [result EXCEPT !.chart_path = NonePath]
              /\ renderFailed' = renderFailed \cup {i}
              /\ UNCHANGED charts_dir
    /\ Goto("insert")
    /\ UNCHANGED <<appVars, modelVars, i, df_full, metrics, fetched, noData, predictCalls, oracleFailed, succeeded, updateArgs, page, due, overran, cycles, interruptedAt, engineVars>>

\* main.py:149-157: a true result enters the report under its symbol;
\* result.chart_path.relative_to raises AttributeError when chart_path is None
InsertResult_noneChart ==
    /\ pc = "insert"
    /\ IF Truthy(result)
       THEN /\ metrics' = [s \in DOMAIN metrics \cup {SymbolOf(i)} |->
                             IF s = SymbolOf(i)
                             THEN ForecastResult(result.upside_prob, result.vol_amp_prob,
                                                 IF result.chart_path.isNone THEN NonePath ELSE RelativeToDocs(result.chart_path))
                             ELSE metrics[s]]
            /\ succeeded' = succeeded \cup {i}
            /\ Continue
       ELSE /\ Continue
            /\ UNCHANGED <<metrics, succeeded>>
    /\ UNCHANGED <<appVars, modelVars, fetched, noData, predictCalls, oracleFailed, renderFailed, updateArgs, charts_dir, page, due, overran, cycles, interruptedAt, engineVars>>

InsertResult_keepsFirst ==
    /\ pc = "insert"
    /\ IF Truthy(result)
       THEN IF result.chart_path.isNone
            THEN /\ Raise("chart_path")
                 /\ UNCHANGED <<metrics, succeeded, i, df_full, result>>
            ELSE /\ metrics' = [s \in DOMAIN metrics \cup {SymbolOf(i)} |->
                                  IF s \notin DOMAIN metrics
                                  THEN ForecastResult(result.upside_prob, result.vol_amp_prob, RelativeToDocs(result.chart_path))
                                  ELSE metrics[s]]
                 /\ succeeded' = succeeded \cup {i}
                 /\ Continue
       ELSE /\ Continue
            /\ UNCHANGED <<metrics, succeeded>>
    /\ UNCHANGED <<appVars, modelVars, fetched, noData, predictCalls, oracleFailed, renderFailed, updateArgs, charts_dir, page, due, overran, cycles, interruptedAt, engineVars>>

InsertResult ==
    /\ pc = "insert"
    /\ IF Truthy(result)
       THEN IF result.chart_path.isNone
            THEN /\ Raise("chart_path")
                 /\ UNCHANGED <<metrics, succeeded, i, df_full, result>>
            ELSE /\ metrics' = [s \in DOMAIN metrics \cup {SymbolOf(i)} |->
                                  IF s = SymbolOf(i)
                                  THEN ForecastResult(result.upside_prob, result.vol_amp_prob, RelativeToDocs(result.chart_path))
                                  ELSE metrics[s]]
                 /\ succeeded' = succeeded \cup {i}
                 /\ Continue
       ELSE /\ Continue
            /\ UNCHANGED <<metrics, succeeded>>
    /\ UNCHANGED <<appVars, modelVars, fetched, noData, predictCalls, oracleFailed, renderFailed, updateArgs, charts_dir, page, due, overran, cycles, interruptedAt, engineVars>>

\* ------------------------------------------------------------- publishing

\* main.py:174-179: an empty report returns False, else update(metrics)
CheckEmpty ==
    /\ pc = "check_empty"
    /\ IF IsEmpty(metrics)
       THEN /\ Return("False")
            /\ UNCHANGED updateArgs
       ELSE /\ updateArgs' = Append(updateArgs, metrics)
            /\ Goto("update_render")
    /\ UNCHANGED <<appVars, modelVars, localVars, fetched, noData, predictCalls, oracleFailed, renderFailed, succeeded, charts_dir, page, due, overran, cycles, interruptedAt, engineVars>>

\* web_generator.py:14-34: mkdir, load the template, render it
UpdateRender ==
    /\ pc = "update_render"
    /\ \E ok \in BOOLEAN : IF ok THEN Goto("update_open") ELSE Raise("update")
    /\ UNCHANGED <<appVars, modelVars, localVars, ghostVars, charts_dir, page, due, overran, cycles, interruptedAt, engineVars>>

\* web_generator.py:36: open(output_path, 'w') truncates index.html
UpdateOpen ==
    /\ pc = "update_open"
    /\ \E ok \in BOOLEAN :
         IF ok
         THEN /\ page' = "truncated"
              /\ Goto("update_write")
         ELSE /\ Raise("update")
              /\ UNCHANGED page
    /\ UNCHANGED <<appVars, modelVars, localVars, ghostVars, charts_dir, due, overran, cycles, interruptedAt, engineVars>>

\* web_generator.py:37-38 and main.py:180-187: the page is written, update
\* returns and run_forecast returns True
UpdateWrite ==
    /\ pc = "update_write"
    /\ \E ok \in BOOLEAN :
         IF ok
         THEN /\ page' = "written"
              /\ Return("True")
         ELSE /\ Raise("update")
              /\ UNCHANGED page
    /\ UNCHANGED <<appVars, modelVars, localVars, ghostVars, charts_dir, due, overran, cycles, interruptedAt, engineVars>>

\* ------------------------------------------------------- after the cycle

\* main.py:241: 0 if success else 1
ExitStatus_zero(success) == "0"

ExitStatus(success) == IF success = "True" THEN "0" ELSE "1"

\* main.py:240-241: sys.exit(0 if success else 1)
ExitRunOnce ==
    /\ pc = "cycle_done"
    /\ ~args_schedule
    /\ pc' = "exited"
    /\ exitCode' = ExitStatus(lastResult)
    /\ UNCHANGED <<appVars, modelVars, localVars, ghostVars, lastResult, raised, charts_dir, page, due, overran, cycles, interruptedAt, engineVars>>

\* main.py:198-202: the job returns into run_pending, which drops its result
\* and schedules the next run one period after this moment (schedule's
\* Job.run: next_run = now + period), whether or not the cycle ran longer than
\* the period; the locals of the cycle are gone
JobReturns_stopsOnFailure ==
    /\ pc = "cycle_done"
    /\ args_schedule
    /\ IF lastResult = "False"
       THEN /\ pc' = "exited"
            /\ exitCode' = "1"
       ELSE /\ pc' = "sleep"
            /\ UNCHANGED exitCode
    /\ \E late \in BOOLEAN : overran' = late
    /\ due' = FALSE
    /\ CycleForgotten
    /\ UNCHANGED <<appVars, modelVars, charts_dir, page, cycles, interruptedAt, engineVars>>

JobReturns ==
    /\ pc = "cycle_done"
    /\ args_schedule
    /\ pc' = "sleep"
    /\ \E late \in BOOLEAN : overran' = late
    /\ due' = FALSE
    /\ CycleForgotten
    /\ UNCHANGED <<appVars, modelVars, exitCode, charts_dir, page, cycles, interruptedAt, engineVars>>

\* main.py:243-245: SIGINT raises KeyboardInterrupt in the main thread at
\* whatever statement is running; it is no Exception, so main.py:189 does not
\* catch it and main() exits with code 0
Interrupt ==
    /\ pc # "exited"
    /\ ~Catches("KeyboardInterrupt")
    /\ interruptedAt' = pc
    /\ pc' = "exited"
    /\ exitCode' = "0"
    /\ CycleForgotten
    /\ UNCHANGED <<appVars, modelVars, charts_dir, page, due, overran, cycles, engineVars>>

Next ==
    \/ MainDispatch
    \/ Sleep
    \/ RunPending
    \/ RunForecast
    \/ RunMockMode
    \/ EnsureModelLoaded
    \/ Predictor
    \/ FetchData
    \/ RunForSymbol
    \/ PredictMain
    \/ PredictVolatility
    \/ CalculateMetrics
    \/ CreatePlot
    \/ InsertResult
    \/ CheckEmpty
    \/ UpdateRender
    \/ UpdateOpen
    \/ UpdateWrite
    \/ ExitRunOnce
    \/ JobReturns
    \/ Interrupt

Spec == Init /\ [][Next]_vars

\* the steps of the main thread: every call of a cycle returns or raises and
\* the loop of run_scheduler goes round; SIGINT may never come
Thread ==
    \/ MainDispatch
    \/ Sleep
    \/ RunPending
    \/ RunForecast
    \/ RunMockMode
    \/ EnsureModelLoaded
    \/ Predictor
    \/ FetchData
    \/ RunForSymbol
    \/ PredictMain
    \/ PredictVolatility
    \/ CalculateMetrics
    \/ CreatePlot
    \/ InsertResult
    \/ CheckEmpty
    \/ UpdateRender
    \/ UpdateOpen
    \/ UpdateWrite
    \/ ExitRunOnce
    \/ JobReturns

LiveSpec == Init /\ [][Next]_vars /\ WF_vars(Thread)


\* ------------------------------------------- run_for_symbol on one history

LogPrices == 0..MaxLogPrice

\* the labels of Binance kline intervals, in both cases, and one label that
\* holds both a 'd' and an 'h'
Intervals ==
    {<<"1", "m">>, <<"1", "5", "m">>, <<"1", "h">>, <<"4", "H">>, <<"1", "d">>,
     <<"1", "D">>, <<"1", "w">>, <<"1", "M">>, <<"d", "h">>}

RECURSIVE SumSeq(_)
SumSeq(s) == IF s = <<>> THEN 0 ELSE Head(s) + SumSeq(Tail(s))

\* hourly histories without gaps, of every length and with every close column
PriceFrames ==
    {Bars([k \in 1..Len(cl) |-> Hour * k], cl) :
        cl \in UNION {[1..n -> LogPrices] : n \in 0..MaxHist}}

\* histories with gaps: consecutive bars are an hour or a day apart
GapFrames ==
    {Bars([k \in 1..(Len(inc) + 1) |-> SumSeq(SubSeq(inc, 1, k - 1))], [k \in 1..(Len(inc) + 1) |-> 0]) :
        inc \in UNION {[1..m -> {Hour, Day}] : m \in 1..(MaxHist - 1)}}

\* what run_for_symbol is called with: every history of closes under every
\* ensemble shape and volatility window, and every gapped history under every
\* interval label, horizon and number of charted bars
EngineInputs ==
    {<<[interval |-> <<"1", "h">>, pred_horizon |-> hn[1], sample_count |-> hn[2], hist_points |-> 1, vol_window |-> w], f>> :
        hn \in {x \in (1..MaxCells) \X (1..MaxCells) : x[1] * x[2] <= MaxCells},
        w \in 1..MaxWindow,
        f \in PriceFrames \cup {NoBars}}
    \cup
    {<<[interval |-> l, pred_horizon |-> h, sample_count |-> 1, hist_points |-> p, vol_window |-> 1], f>> :
        l \in Intervals, h \in 1..MaxCells, p \in 1..MaxHist, f \in GapFrames}

\* predictor.predict: pred_len rows of sample_count columns
Ensembles(pred_len, sample_count) == [1..pred_len -> [1..sample_count -> LogPrices]]

\* df.iloc[:-1]
IlocDropLast_all(df) == df

IlocDropLast(df) ==
    Bars(SubSeq(df.timestamps, 1, Len(df.close) - 1), SubSeq(df.close, 1, Len(df.close) - 1))

\* s.iloc[-n:] for n >= 1
LastN(s, n) == SubSeq(s, IF Len(s) > n THEN Len(s) - n + 1 ELSE 1, Len(s))

\* df.tail(n)
DfTail(df, n) == Bars(LastN(df.timestamps, n), LastN(df.close, n))

\* str.lower() on the letters a label can hold
Lower(ch) == IF ch = "D" THEN "d" ELSE IF ch = "H" THEN "h" ELSE IF ch = "M" THEN "m" ELSE ch

\* ch in interval.lower()
In(ch, interval) == \E k \in 1..Len(interval) : Lower(interval[k]) = ch

\* pipeline.py:11-19: freq and td, which are the same step
Freq(interval) == IF In("d", interval) THEN Day ELSE IF In("h", interval) THEN Hour ELSE Minute

\* df['timestamps'].max() of a column that is not empty
MaxTimestamp(ts) == CHOOSE t \in {ts[k] : k \in 1..Len(ts)} : \A k \in 1..Len(ts) : ts[k] <= t

\* start_new_range = last_timestamp + td
StartOfRange_last(last_timestamp, td) == last_timestamp

StartOfRange(last_timestamp, td) == last_timestamp + td

\* pd.date_range(start, periods, freq) for a fixed-step freq
DateRange(start, periods, freq) == [k \in 1..periods |-> start + (k - 1) * freq]

\* close_preds_df.iloc[-1]
FinalRow_first(preds) == preds[1]

FinalRow(preds) == preds[Len(preds)]

\* Series.mean() of a boolean row
Mean_sum(flags) == Prob(Cardinality({c \in 1..Len(flags) : flags[c]}), 1)

Mean(flags) == Prob(Cardinality({c \in 1..Len(flags) : flags[c]}), Len(flags))

\* np.log(s / s.shift(1)), in units of ln 2: the first entry is NaN
LogReturns(s) == [k \in 1..Len(s) |-> IF k = 1 THEN NaN ELSE Float(s[k] - s[k - 1])]

\* Series.std(): NaN entries are skipped, ddof = 1, NaN below two values;
\* the variance is (n * sum of squares - square of sum) / (n * (n - 1))
Std(s) ==
    LET vals == SelectSeq(s, LAMBDA x : x # NaN)
        n == Len(vals)
        sum == SumSeq([k \in 1..n |-> vals[k][1]])
        squares == SumSeq([k \in 1..n |-> vals[k][1] * vals[k][1]])
    IN  IF n < 2 THEN NaNVol ELSE Vol(n * squares - sum * sum, n * (n - 1))

\* predicted_vol > historical_vol: False when either is NaN
Greater_orEqual(a, b) == ~a.nan /\ ~b.nan /\ a.num * b.den >= b.num * a.den

Greater(a, b) == ~a.nan /\ ~b.nan /\ a.num * b.den > b.num * a.den

\* len(v_close_preds_df.columns)
NumColumns(preds) == Len(preds[1])

\* v_close_preds_df[col]
Column(preds, col) == [r \in 1..Len(preds) |-> preds[r][col]]

\* pipeline.py:69-71: the std of the log returns of the path after last_close
PredictedVol(path, close) == Std(LogReturns(<<close>> \o path))

\* pipeline.py:67-73: the loop over the columns
AmplificationCount(preds, close, vol) ==
    Cardinality({col \in DOMAIN preds[1] : Greater(PredictedVol(Column(preds, col), close), vol)})

\* the orchestrator has called run_for_symbol
EngineInit ==
    /\ args_mock = FALSE
    /\ args_schedule = FALSE
    /\ config = [name \in {available[k] : k \in 1..Len(available)} |-> IF name = available[1] THEN SymbolList(1, 1) ELSE NoSection]
    /\ pairs = PairsFrom(config, 1)
    /\ charts_dir = <<>>
    /\ page = "absent"
    /\ mock = FALSE
    /\ model_loaded = TRUE
    /\ artifacts = TRUE
    /\ pc = "run_for_symbol"
    /\ i = 1
    /\ df_full = NoneDf
    /\ result = NoResult
    /\ metrics = EmptyMetrics
    /\ lastResult = "none"
    /\ exitCode = "none"
    /\ due = FALSE
    /\ overran = FALSE
    /\ cycles = 1
    /\ loadCalls = 1
    /\ loadFailed = FALSE
    /\ fetched = {1}
    /\ noData = {}
    /\ predictCalls = {}
    /\ oracleFailed = {}
    /\ renderFailed = {}
    /\ succeeded = {}
    /\ raised = "none"
    /\ updateArgs = <<>>
    /\ interruptedAt = "none"
    /\ engine_pc = "run_for_symbol"
    /\ \E input \in EngineInputs :
         /\ call = input[1]
         /\ bars = input[2]
    /\ df_for_model = NoBars
    /\ y_timestamp = <<>>
    /\ oracle_calls = <<>>
    /\ hist_df_for_plot = NoBars
    /\ hist_df_for_metrics = NoBars
    /\ last_close = 0
    /\ close_preds = <<>>
    /\ upside_prob = NaN
    /\ historical_vol = NaNVol
    /\ v_close_preds = <<>>
    /\ vol_amp_prob = NaN

\* engine.py:31-35: the guard and df_for_model
EngineRunForSymbol ==
    /\ engine_pc = "run_for_symbol"
    /\ IF bars.isNone \/ Len(bars.close) = 0
       THEN /\ engine_pc' = "returned_none"
            /\ UNCHANGED df_for_model
       ELSE /\ df_for_model' = IlocDropLast(bars)
            /\ engine_pc' = "make_prediction"
    /\ UNCHANGED <<orchestratorVars, call, bars, y_timestamp, oracle_calls, hist_df_for_plot, hist_df_for_metrics, last_close, close_preds, upside_prob, historical_vol, v_close_preds, vol_amp_prob>>

\* pipeline.py:9-27: the future axis; the max of an empty column is NaT and
\* pd.date_range raises on it
MakePrediction ==
    /\ engine_pc = "make_prediction"
    /\ IF df_for_model.timestamps = <<>>
       THEN /\ engine_pc' = "raised"
            /\ UNCHANGED y_timestamp
       ELSE /\ y_timestamp' = DateRange(StartOfRange(MaxTimestamp(df_for_model.timestamps), Freq(call.interval)),
                                        call.pred_horizon, Freq(call.interval))
            /\ engine_pc' = "main_prediction"
    /\ UNCHANGED <<orchestratorVars, call, bars, df_for_model, oracle_calls, hist_df_for_plot, hist_df_for_metrics, last_close, close_preds, upside_prob, historical_vol, v_close_preds, vol_amp_prob>>

\* pipeline.py:33-37 and 42-46: the arguments of predictor.predict; x_df and
\* x_timestamp are the columns of df
PredictCall_tail(T) ==
    [T |-> T, top_p |-> "0.9", sample_count |-> call.sample_count, pred_len |-> call.pred_horizon,
     df |-> IF T = "0.9" THEN DfTail(df_for_model, call.vol_window) ELSE df_for_model,
     y_timestamp |-> y_timestamp]

PredictCall(T) ==
    [T |-> T, top_p |-> "0.9", sample_count |-> call.sample_count, pred_len |-> call.pred_horizon,
     df |-> df_for_model, y_timestamp |-> y_timestamp]

\* pipeline.py:31-38: the T=0.6 call returns or raises, and a raise leaves
\* make_prediction and run_for_symbol; the ensemble it returns is any value
\* and is chosen where it is first read
MainPrediction ==
    /\ engine_pc = "main_prediction"
    /\ \E ok \in BOOLEAN :
         /\ oracle_calls' = Append(oracle_calls, [args |-> PredictCall("0.6"), returned |-> ok])
         /\ engine_pc' = IF ok THEN "volatility_prediction" ELSE "raised"
    /\ UNCHANGED <<orchestratorVars, call, bars, df_for_model, y_timestamp, hist_df_for_plot, hist_df_for_metrics, last_close, close_preds, upside_prob, historical_vol, v_close_preds, vol_amp_prob>>

\* pipeline.py:40-49: the T=0.9 call
VolatilityPrediction ==
    /\ engine_pc = "volatility_prediction"
    /\ \E ok \in BOOLEAN :
         /\ oracle_calls' = Append(oracle_calls, [args |-> PredictCall("0.9"), returned |-> ok])
         /\ engine_pc' = IF ok THEN "tail" ELSE "raised"
    /\ UNCHANGED <<orchestratorVars, call, bars, df_for_model, y_timestamp, hist_df_for_plot, hist_df_for_metrics, last_close, close_preds, upside_prob, historical_vol, v_close_preds, vol_amp_prob>>

\* engine.py:39-40: the histories handed to create_plot and calculate_metrics
TailForMetrics ==
    /\ engine_pc = "tail"
    /\ hist_df_for_plot' = DfTail(df_for_model, call.hist_points)
    /\ hist_df_for_metrics' = DfTail(df_for_model, call.vol_window)
    /\ engine_pc' = "upside"
    /\ UNCHANGED <<orchestratorVars, call, bars, df_for_model, y_timestamp, oracle_calls, last_close, close_preds, upside_prob, historical_vol, v_close_preds, vol_amp_prob>>

\* pipeline.py:56-61: last_close and the upside probability of whatever
\* ensemble the T=0.6 call gave; calculate_metrics is handed hist_df_for_metrics
\* and the ensembles only, so nothing read from here on depends on df_full,
\* df_for_model, the axis, the arguments of the oracle calls or the charted
\* history
UpsideProbability ==
    /\ engine_pc = "upside"
    /\ \E preds \in Ensembles(call.pred_horizon, call.sample_count) :
         LET close == hist_df_for_metrics.close[Len(hist_df_for_metrics.close)]
             final_hour_preds == FinalRow(preds)
         IN  /\ close_preds' = preds
             /\ last_close' = close
             /\ upside_prob' = Mean([c \in 1..Len(final_hour_preds) |-> final_hour_preds[c] > close])
    /\ bars' = NoBars
    /\ df_for_model' = NoBars
    /\ y_timestamp' = <<>>
    /\ oracle_calls' = <<>>
    /\ hist_df_for_plot' = NoBars
    /\ engine_pc' = "historical_vol"
    /\ UNCHANGED <<orchestratorVars, call, hist_df_for_metrics, historical_vol, v_close_preds, vol_amp_prob>>

\* pipeline.py:64-65: the std of the last vol_window log returns of the
\* history; close_preds is not read again
HistoricalVolatility ==
    /\ engine_pc = "historical_vol"
    /\ historical_vol' = Std(LastN(LogReturns(hist_df_for_metrics.close), call.vol_window))
    /\ close_preds' = <<>>
    /\ engine_pc' = "volatility"
    /\ UNCHANGED <<orchestratorVars, call, bars, df_for_model, y_timestamp, oracle_calls, hist_df_for_plot, hist_df_for_metrics, last_close, upside_prob, v_close_preds, vol_amp_prob>>

\* pipeline.py:67-78: the loop over the columns of whatever ensemble the
\* T=0.9 call gave, and the division
VolatilityAmplification ==
    /\ engine_pc = "volatility"
    /\ \E preds \in Ensembles(call.pred_horizon, call.sample_count) :
         /\ v_close_preds' = preds
         /\ vol_amp_prob' = Prob(AmplificationCount(preds, last_close, historical_vol), NumColumns(preds))
    /\ engine_pc' = "returned"
    /\ UNCHANGED <<orchestratorVars, call, bars, df_for_model, y_timestamp, oracle_calls, hist_df_for_plot, hist_df_for_metrics, last_close, close_preds, upside_prob, historical_vol>>

EngineNext ==
    \/ EngineRunForSymbol
    \/ MakePrediction
    \/ MainPrediction
    \/ VolatilityPrediction
    \/ TailForMetrics
    \/ UpsideProbability
    \/ HistoricalVolatility
    \/ VolatilityAmplification

EngineSpec == EngineInit /\ [][EngineNext]_vars


\* ---------------------------------------------------------------- claims

\* positions inside a started cycle, up to the return of run_forecast
CyclePcs ==
    {"mock", "ensure_model_loaded", "predictor", "fetch", "run_for_symbol",
     "predict_main", "predict_volatility", "calculate_metrics", "create_plot", "insert",
     "check_empty", "update_render", "update_open", "update_write"}

\* positions inside the per-instrument loop
PipelinePcs ==
    {"fetch", "run_for_symbol", "predict_main", "predict_volatility", "calculate_metrics",
     "create_plot", "insert"}

\* the report the publisher got holds every instrument inserted in this cycle
PublishedAllSucceeded ==
    /\ Len(updateArgs) = 1
    /\ \A j \in succeeded : SymbolOf(j) \in DOMAIN updateArgs[1]

\* C1: in a non-mock cycle, when an oracle call raises for one instrument,
\* only that instrument is abandoned: when the cycle is over every configured
\* pair has been fetched and the instruments that succeeded are published.
C1_OracleFailureAbandonsOnlyThatInstrument ==
    (pc = "cycle_done" /\ ~mock /\ oracleFailed # {}) =>
        /\ fetched = AllPairs
        /\ (succeeded # {} => PublishedAllSucceeded)

\* C2: when create_plot returns no path for an instrument, that instrument is
\* left out of the report and the cycle is not aborted: no exception ends it,
\* every pair is fetched and the instruments that succeeded are published.
C2_RendererFailureExcludesOnlyThatInstrument ==
    (pc = "cycle_done" /\ renderFailed # {}) =>
        /\ raised = "none"
        /\ renderFailed \cap succeeded = {}
        /\ fetched = AllPairs
        /\ (succeeded # {} => PublishedAllSucceeded)

\* C3: a fetch that returns None or an empty frame skips that instrument and
\* nothing else: the instrument gets no oracle call and no report entry, the
\* loop goes straight on to fetch the next configured pair, and a cycle whose
\* only failures are such fetches fetches every pair and publishes every
\* instrument that succeeded.
C3_ProviderFailureSkipsInstrument ==
    /\ \A j \in noData :
         /\ j \notin succeeded
         /\ \A c \in predictCalls : c[1] # j
         /\ j < Len(Pairs) => (j + 1 \in fetched \/ (pc = "fetch" /\ i = j + 1))
         /\ j = Len(Pairs) => pc \notin PipelinePcs
    /\ (pc = "cycle_done" /\ raised = "none" /\ noData # {}) =>
         /\ fetched = AllPairs
         /\ (succeeded # {} => PublishedAllSucceeded /\ lastResult = "True")

C3_Witness ==
    /\ pc = "cycle_done"
    /\ 1 \in noData
    /\ 2 \in succeeded
    /\ lastResult = "True"

\* C4: a cycle that ends with an empty report returns False and has not called
\* WebGenerator.update; update is never handed an empty report.
C4_EmptyReportFailsWithoutPublishing ==
    /\ (pc = "cycle_done" /\ DOMAIN metrics = {}) => (lastResult = "False" /\ updateArgs = <<>>)
    /\ \A k \in 1..Len(updateArgs) : DOMAIN updateArgs[k] # {}

C4_Witness ==
    /\ pc = "cycle_done"
    /\ ~mock
    /\ raised = "none"
    /\ Len(Pairs) >= 2
    /\ fetched = AllPairs
    /\ DOMAIN metrics = {}
    /\ lastResult = "False"

\* C5: in every cycle in which at least one instrument succeeded the publisher
\* is invoked exactly once, only after every configured pair was processed,
\* with a report that holds every instrument that succeeded.
C5_PublisherOnceWithCompleteReport ==
    /\ (pc = "cycle_done" /\ succeeded # {}) => (PublishedAllSucceeded /\ fetched = AllPairs)
    /\ (~mock /\ updateArgs # <<>>) => fetched = AllPairs

\* C6: with --mock no cycle calls DataSourceManager.fetch, ModelManager.load
\* or predictor.predict, in run-once mode and under the scheduler.
C6_MockNeverCallsProviderOrOracle ==
    args_mock => (fetched = {} /\ predictCalls = {} /\ loadCalls = 0 /\ ~artifacts)

C6_Witness ==
    /\ args_mock
    /\ args_schedule
    /\ cycles >= 2
    /\ pc = "cycle_done"
    /\ lastResult = "True"

\* C7: ModelManager.load is called at most once in the life of the process.
C7_OracleInitializedAtMostOnce == loadCalls <= 1

\* C8: once ModelManager.load has raised, no further cycle is started.
C8_LoadFailureIsFatal == loadFailed => pc \notin CyclePcs

\* C9: KeyboardInterrupt ends the process only between cycles or in the
\* scheduler's idle wait, never inside a cycle, and the page is never left
\* truncated at shutdown.
C9_InterruptOnlyAtCycleBoundary ==
    (pc = "exited" /\ interruptedAt # "none") =>
        /\ interruptedAt \notin CyclePcs
        /\ page # "truncated"

\* C10: every Exception raised inside a cycle, and the empty report, make
\* run_forecast return False instead of propagating (under the scheduler the
\* process goes on); it returns True only when update was called once and
\* returned, having written the page.
C10_FailuresBecomeFalse ==
    /\ raised # "none" => (lastResult = "False" /\ updateArgs \in {<<>>, <<metrics>>})
    /\ (raised # "none" /\ args_schedule) => pc = "cycle_done"
    /\ (raised # "none" /\ pc = "exited") => exitCode = "1"
    /\ (pc = "cycle_done" /\ DOMAIN metrics = {}) => lastResult = "False"
    /\ pc = "cycle_done" => lastResult \in {"True", "False"}
    /\ lastResult = "True" => (pc \in {"cycle_done", "exited"} /\ raised = "none" /\ updateArgs = <<metrics>> /\ page = "written")

C10_Witness ==
    /\ pc = "cycle_done"
    /\ raised = "update"
    /\ page = "truncated"
    /\ lastResult = "False"

\* C11: under --schedule the process exits only on KeyboardInterrupt, and
\* then with code 0; a cycle that raised stays inside run_forecast's handler,
\* every finished cycle returns to the scheduler loop, and every tick at which
\* the job is due starts a cycle (or the interrupt comes first).
C11_SchedulerNeverStops ==
    /\ []((args_schedule /\ pc = "exited") => (interruptedAt # "none" /\ exitCode = "0"))
    /\ []((args_schedule /\ raised # "none") => pc = "cycle_done")
    /\ ((args_schedule /\ pc = "cycle_done") ~> (pc \in {"sleep", "exited"}))
    /\ ((args_schedule /\ due) ~> (pc \in {"mock", "ensure_model_loaded", "exited"}))

C11_Witness ==
    /\ args_schedule
    /\ loadFailed
    /\ cycles = 2
    /\ pc = "fetch"

\* C12: under the scheduler a cycle starts only when nothing of an earlier
\* cycle is running, and when the cycle that has just returned ran longer than
\* the period the job is due again at once.
C12_NoOverlapAndImmediateRestart ==
    /\ (args_schedule /\ pc = "run_forecast") =>
         (lastResult = "none" /\ i = 0 /\ fetched = {} /\ updateArgs = <<>>)
    /\ (pc = "sleep" /\ overran) => due

\* C13 as stated: in run-once mode the process exits with 0 when the cycle
\* produced a non-empty report and with 1 otherwise.
C13_ExitCodeFollowsReport ==
    (pc = "exited" /\ ~args_schedule /\ interruptedAt = "none") =>
        (exitCode = "0" <=> updateArgs # <<>>)

\* C13 as amended: in run-once mode an uninterrupted process exits with 0
\* exactly when the cycle produced a non-empty report and WebGenerator.update
\* wrote the page without raising, and with 1 otherwise (empty report, or any
\* exception of the cycle, the publisher's included); an interrupted process
\* exits with 0.
C13_ExitCodeFollowsSuccess ==
    /\ (pc = "exited" /\ ~args_schedule /\ interruptedAt = "none") =>
         /\ exitCode \in {"0", "1"}
         /\ exitCode = "0" <=> (updateArgs # <<>> /\ raised = "none" /\ page = "written")
    /\ (pc = "exited" /\ interruptedAt # "none") => exitCode = "0"

C13_Witness ==
    /\ pc = "exited"
    /\ ~args_schedule
    /\ interruptedAt = "none"
    /\ updateArgs # <<>>
    /\ raised = "update"
    /\ exitCode = "1"

\* C20: with --mock the report of a cycle has exactly one entry per PNG of
\* docs/static/chart, each with both probabilities 1/2 and the path
\* static/chart/<stem> of that PNG; when the directory is missing or holds no
\* PNG the report is empty, run_forecast returns False and update is not
\* called.
C20_MockReportFromCharts ==
    (args_mock /\ pc \in {"check_empty", "update_render", "update_open", "update_write", "cycle_done"}) =>
        /\ DOMAIN metrics = (IF charts_dir = <<>> THEN {} ELSE charts_dir[1])
        /\ \A s \in DOMAIN metrics :
             metrics[s] = [isNone |-> FALSE, upside_prob |-> <<1, 2>>, vol_amp_prob |-> <<1, 2>>,
                           chart_path |-> [isNone |-> FALSE, parts |-> <<"static", "chart", s>>]]
        /\ (pc = "cycle_done" /\ (charts_dir = <<>> \/ charts_dir = <<{}>>)) =>
             (lastResult = "False" /\ updateArgs = <<>> /\ page = "absent")
        /\ (pc = "cycle_done" /\ lastResult = "True") => updateArgs = <<metrics>>

C20_Witness ==
    /\ args_mock
    /\ pc = "cycle_done"
    /\ charts_dir = <<Symbols>>
    /\ Cardinality(DOMAIN metrics) = 2
    /\ lastResult = "True"

\* ---- the arithmetic the claims about calculate_metrics are stated in

\* the log returns of a price path, in units of ln 2
ReturnsOf(path) == [k \in 1..(Len(path) - 1) |-> path[k + 1] - path[k]]

RECURSIVE SumOfThird(_)
SumOfThird(triples) ==
    IF triples = {} THEN 0
    ELSE LET t == CHOOSE x \in triples : TRUE
         IN  t[3] + SumOfThird(triples \ {t})

\* the squared differences of every two of the values, summed: n (n - 1)
\* times the sample variance of n values
PairwiseSquares(rs) ==
    SumOfThird({<<p[1], p[2], (rs[p[1]] - rs[p[2]]) * (rs[p[1]] - rs[p[2]])>> :
                   p \in {q \in (1..Len(rs)) \X (1..Len(rs)) : q[1] < q[2]}})

\* the volatility path `col` of v_close_preds after last_close
PathAfterLastClose(col) == <<last_close>> \o [r \in 1..Len(v_close_preds) |-> v_close_preds[r][col]]

\* the sample standard deviation of the returns rs is defined and above zero
NonzeroVolatility(rs) == Len(rs) >= 2 /\ PairwiseSquares(rs) > 0

\* the sample standard deviation of the returns rs is defined and strictly
\* above historical_vol
AboveHistorical(rs) ==
    /\ Len(rs) >= 2
    /\ ~historical_vol.nan
    /\ PairwiseSquares(rs) * historical_vol.den > historical_vol.num * Len(rs) * (Len(rs) - 1)

\* C14: upside_prob is the number of close_preds paths whose value at the last
\* horizon step is strictly above last_close, the last close of the trailing
\* history, over the number of paths: 1 exactly when every path ends above it,
\* 0 exactly when none does, a path that ends at last_close not counted.
C14_UpsideIsFractionAboveLastClose ==
    engine_pc = "historical_vol" =>
        LET paths == 1..call.sample_count
            above == {c \in paths : close_preds[call.pred_horizon][c] > last_close}
        IN  /\ last_close = hist_df_for_metrics.close[Len(hist_df_for_metrics.close)]
            /\ upside_prob = <<Cardinality(above), call.sample_count>>
            /\ (upside_prob[1] = upside_prob[2]) <=> (\A c \in paths : close_preds[call.pred_horizon][c] > last_close)
            /\ (upside_prob[1] = 0) <=> (\A c \in paths : close_preds[call.pred_horizon][c] <= last_close)

C14_Witness ==
    /\ engine_pc = "historical_vol"
    /\ call.pred_horizon = 2
    /\ call.sample_count = 2
    /\ close_preds[2][1] > last_close
    /\ close_preds[1][2] > last_close
    /\ close_preds[2][2] = last_close
    /\ upside_prob = <<1, 2>>

\* C15: vol_amp_prob is the number of v_close_preds paths whose standard
\* deviation of log returns, taken on the path with last_close put in front, is
\* strictly above historical_vol, over the number of paths.
C15_VolAmpIsFractionAboveHistorical ==
    engine_pc = "returned" =>
        vol_amp_prob = <<Cardinality({c \in 1..call.sample_count : AboveHistorical(ReturnsOf(PathAfterLastClose(c)))}),
                         call.sample_count>>

C15_Witness ==
    /\ engine_pc = "returned"
    /\ call.sample_count = 2
    /\ ~historical_vol.nan
    /\ historical_vol.num > 0
    /\ vol_amp_prob = <<1, 2>>
    /\ \E c \in 1..2 : ~AboveHistorical(ReturnsOf(PathAfterLastClose(c))) /\ NonzeroVolatility(ReturnsOf(PathAfterLastClose(c)))

\* C16: when historical_vol is zero or undefined, every v_close_preds path
\* with a nonzero predicted volatility is counted as amplified.
C16_ZeroOrUndefinedHistoricalVol ==
    (engine_pc = "returned" /\ (historical_vol.nan \/ historical_vol.num = 0)) =>
        vol_amp_prob = <<Cardinality({c \in 1..call.sample_count : NonzeroVolatility(ReturnsOf(PathAfterLastClose(c)))}),
                         call.sample_count>>

\* C17: whenever the history has them, calculate_metrics is handed at least
\* vol_window + 1 bars, so that historical_vol is taken over vol_window log
\* returns.
C17_HistoryCoversVolWindow ==
    (engine_pc = "upside" /\ Len(df_for_model.close) >= call.vol_window + 1) =>
        Len(hist_df_for_metrics.close) >= call.vol_window + 1

\* C18: for a history of at least 2 bars the future axis has pred_horizon
\* points, starts one step after the last timestamp of the history handed to
\* make_prediction and goes on in equal steps, the step being a day when the
\* label holds a 'd', else an hour when it holds an 'h', else a minute,
\* whatever the gaps of the history.
C18_FutureAxis ==
    engine_pc \in {"tail", "upside"} =>
        LET ts == df_for_model.timestamps
            holds(chars) == \E k \in 1..Len(call.interval) : call.interval[k] \in chars
            unit == IF holds({"d", "D"}) THEN 1440 ELSE IF holds({"h", "H"}) THEN 60 ELSE 1
        IN  /\ Len(y_timestamp) = call.pred_horizon
            /\ y_timestamp[1] = ts[Len(ts)] + unit
            /\ \A k \in 1..(Len(y_timestamp) - 1) : y_timestamp[k + 1] - y_timestamp[k] = unit

C18_Witness ==
    /\ engine_pc = "tail"
    /\ call.interval = <<"d", "h">>
    /\ call.pred_horizon >= 2
    /\ Len(df_for_model.timestamps) >= 2
    /\ df_for_model.timestamps[2] - df_for_model.timestamps[1] = 60
    /\ y_timestamp[2] - y_timestamp[1] = 1440

\* C19: both results of calculate_metrics are probabilities: a count between
\* 0 and the number of paths, over the number of paths.
C19_ResultsAreProbabilities ==
    /\ engine_pc \in {"historical_vol", "volatility", "returned"} =>
         (upside_prob[2] >= 1 /\ 0 <= upside_prob[1] /\ upside_prob[1] <= upside_prob[2])
    /\ engine_pc = "returned" =>
         (vol_amp_prob[2] >= 1 /\ 0 <= vol_amp_prob[1] /\ vol_amp_prob[1] <= vol_amp_prob[2])

C19_Witness ==
    /\ engine_pc = "returned"
    /\ upside_prob = <<2, 2>>
    /\ vol_amp_prob = <<2, 2>>

\* C21: make_prediction calls the oracle at most twice, first with T=0.6 and
\* then with T=0.9, and exactly twice when it returns; both calls get the same
\* history (df_for_model) and the same future axis, top_p 0.9, the configured
\* sample count and pred_horizon; a call is issued only after every earlier
\* one returned, so after a failed first call there is no second.
C21_TwoOracleCallsInOrder ==
    LET n == Len(oracle_calls)
        temperatures == <<"0.6", "0.9">>
    IN  /\ n <= 2
        /\ engine_pc \in {"run_for_symbol", "make_prediction", "main_prediction"} => n = 0
        /\ engine_pc = "volatility_prediction" => n = 1
        /\ engine_pc \in {"tail", "upside"} => (n = 2 /\ oracle_calls[2].returned)
        /\ \A k \in 1..n :
             /\ oracle_calls[k].args.T = temperatures[k]
             /\ oracle_calls[k].args.top_p = "0.9"
             /\ oracle_calls[k].args.sample_count = call.sample_count
             /\ oracle_calls[k].args.pred_len = call.pred_horizon
             /\ oracle_calls[k].args.df = df_for_model
             /\ oracle_calls[k].args.y_timestamp = y_timestamp
             /\ k < n => oracle_calls[k].returned
             /\ ~oracle_calls[k].returned => engine_pc = "raised"

C21_Witness ==
    /\ engine_pc = "tail"
    /\ Len(oracle_calls) = 2
    /\ oracle_calls[1].args.T = "0.6"
    /\ oracle_calls[2].args.T = "0.9"
    /\ Len(df_for_model.close) > call.vol_window
    /\ call.pred_horizon >= 2
    /\ call.sample_count >= 2

\* the last n entries of column s of the fetched series without its last bar
TrailingOfFetched(s, n) ==
    LET kept == Len(s) - 1
        len == IF kept > n THEN n ELSE kept
    IN  [k \in 1..len |-> s[kept - len + k]]

\* C22: the last bar of the fetched series is dropped before the history is
\* used: the history handed to both oracle calls is the fetched series without
\* its last bar, the history of calculate_metrics is the last vol_window bars
\* of that and the charted history its last hist_points bars, and last_close
\* is the close of the last bar but one of the fetched series.
C22_LastFetchedBarDropped ==
    /\ [](engine_pc \in {"make_prediction", "main_prediction", "volatility_prediction", "tail", "upside", "raised"} =>
            /\ df_for_model.timestamps = TrailingOfFetched(bars.timestamps, Len(bars.timestamps))
            /\ df_for_model.close = TrailingOfFetched(bars.close, Len(bars.close))
            /\ \A k \in 1..Len(oracle_calls) :
                 /\ oracle_calls[k].args.df.timestamps = TrailingOfFetched(bars.timestamps, Len(bars.timestamps))
                 /\ oracle_calls[k].args.df.close = TrailingOfFetched(bars.close, Len(bars.close)))
    /\ [](engine_pc = "upside" =>
            /\ hist_df_for_metrics.timestamps = TrailingOfFetched(bars.timestamps, call.vol_window)
            /\ hist_df_for_metrics.close = TrailingOfFetched(bars.close, call.vol_window)
            /\ hist_df_for_plot.timestamps = TrailingOfFetched(bars.timestamps, call.hist_points)
            /\ hist_df_for_plot.close = TrailingOfFetched(bars.close, call.hist_points))
    /\ [][engine_pc = "upside" => last_close' = bars.close[Len(bars.close) - 1]]_vars

C22_Witness ==
    /\ engine_pc = "upside"
    /\ Len(bars.close) = 4
    /\ bars.close[4] # bars.close[3]
    /\ Len(hist_df_for_metrics.close) = 3
    /\ hist_df_for_plot.timestamps = <<bars.timestamps[3]>>
    /\ Len(oracle_calls) = 2

\* C23: the report of a cycle holds the instruments inserted in that cycle
\* and no other: in inference mode its keys are the symbols of the pairs that
\* succeeded since the cycle started, in mock mode the PNGs now in the chart
\* directory, and the publisher is handed that report as it is; an instrument
\* that succeeded in an earlier cycle and not in this one is not in it.
C23_NoAccumulationAcrossCycles ==
    /\ ~mock => DOMAIN metrics = {Pairs[j].symbol : j \in succeeded}
    /\ mock => (DOMAIN metrics # {} => (charts_dir # <<>> /\ DOMAIN metrics = charts_dir[1]))
    /\ updateArgs \in {<<>>, <<metrics>>}
    /\ pc \in {"main", "run_pending", "sleep", "run_forecast", "ensure_model_loaded", "predictor", "mock"} =>
         (DOMAIN metrics = {} /\ succeeded = {} /\ updateArgs = <<>>)

C23_Witness ==
    /\ args_schedule
    /\ ~mock
    /\ cycles = 2
    /\ pc = "cycle_done"
    /\ lastResult = "True"
    /\ updateArgs = <<metrics>>
    /\ charts_dir # <<>>
    /\ \E s \in charts_dir[1] : s \notin DOMAIN metrics

\* a report entry with both probabilities and the chart of symbol s
CompleteEntry(e, s) ==
    /\ ~e.isNone
    /\ ~e.chart_path.isNone
    /\ e.chart_path.parts = <<"static", "chart", s>>
    /\ \A p \in {e.upside_prob, e.vol_amp_prob} : p[2] >= 1 /\ 0 <= p[1] /\ p[1] <= p[2]

\* C24: every entry of the report, as it is built and as it is handed to the
\* publisher, has both probabilities and a chart reference that is not None;
\* in inference mode an instrument is in the report only when, in this cycle,
\* its fetch gave data, both oracle calls were made and neither raised, and
\* create_plot saved its chart.
C24_EntriesAreComplete ==
    /\ \A s \in DOMAIN metrics : CompleteEntry(metrics[s], s)
    /\ \A k \in 1..Len(updateArgs) : \A s \in DOMAIN updateArgs[k] : CompleteEntry(updateArgs[k][s], s)
    /\ ~mock =>
         \A j \in succeeded :
             /\ Pairs[j].symbol \in DOMAIN metrics
             /\ j \in fetched \ noData
             /\ {<<j, "0.6">>, <<j, "0.9">>} \subseteq predictCalls
             /\ j \notin oracleFailed \cup renderFailed
             /\ charts_dir # <<>> /\ Pairs[j].symbol \in charts_dir[1]

C24_Witness ==
    /\ ~mock
    /\ pc = "cycle_done"
    /\ lastResult = "True"
    /\ updateArgs = <<metrics>>
    /\ Cardinality(DOMAIN metrics) = 2
    /\ noData # {}

\* the symbols config.ini lists, under whatever provider
ConfiguredSymbols == {Pairs[j].symbol : j \in 1..Len(Pairs)}

\* C25: the inference report is keyed by symbol alone: its keys are the
\* symbols of the pairs that succeeded, so never more than the distinct
\* configured symbols; pairs are processed in configuration order, and each
\* successful processing stores its own result under its symbol, replacing
\* an entry an earlier pair of the same symbol left and touching no other, so
\* that the entry of a symbol is that of its last successful processing.
C25_KeyedBySymbolLastWins ==
    /\ [](~mock => /\ DOMAIN metrics = {Pairs[j].symbol : j \in succeeded}
                   /\ Cardinality(DOMAIN metrics) <= Cardinality(ConfiguredSymbols)
                   /\ Cardinality(DOMAIN metrics) <= Cardinality(succeeded)
                   /\ \A j \in succeeded : j < i \/ pc \notin PipelinePcs)
    /\ [][i' = i \/ i' = i + 1 \/ i' = 0 \/ (i = 0 /\ i' = 1)]_vars
    /\ [][(pc = "insert" /\ i \in succeeded') =>
            /\ succeeded' = succeeded \cup {i}
            /\ DOMAIN metrics' = DOMAIN metrics \cup {Pairs[i].symbol}
            /\ \A s \in DOMAIN metrics \ {Pairs[i].symbol} : metrics'[s] = metrics[s]
            /\ metrics'[Pairs[i].symbol] =
                 [isNone |-> FALSE, upside_prob |-> result.upside_prob, vol_amp_prob |-> result.vol_amp_prob,
                  chart_path |-> [isNone |-> FALSE, parts |-> <<"static", "chart", Pairs[i].symbol>>]]]_vars

C25_Witness ==
    /\ ~mock
    /\ pc = "cycle_done"
    /\ lastResult = "True"
    /\ Cardinality(DOMAIN metrics) = 1
    /\ \E j \in succeeded, k \in succeeded :
         /\ j < k
         /\ Pairs[j].symbol = Pairs[k].symbol
         /\ Pairs[j].source # Pairs[k].source

====
